---- MODULE Spec2Model ----
(***************************************************************************)
(* Model of the "Generator" first-person hex-terrain explorer              *)
(* (src/src/state/gameStateProvider.tsx, src/src/game.tsx).                *)
(*                                                                         *)
(* Numbers.  The program computes with IEEE doubles; the model computes    *)
(* with integers in fixed point:                                           *)
(*   lengths (x, y, z, heights, depths)  in 1/UNIT  world units,           *)
(*   angles (yaw, pitch)                 in 1/ANGLE radians,               *)
(*   sines and cosines                   in 1/TRIG,                        *)
(*   terrain heights (0..1)              in 1/CENT,                        *)
(*   times                               in milliseconds.                  *)
(* A product of two fixed-point numbers is divided back by the scale and   *)
(* rounded to the nearest integer (RDiv).                                  *)
(*                                                                         *)
(* Shape.  Where the program binds a local (const x = ...) and reads it    *)
(* several times, the model passes the value on as the parameter of a      *)
(* helper operator that models the rest of the function.                   *)
(***************************************************************************)
EXTENDS Integers, Sequences, FiniteSets, TLC

UNIT  == 10 * 10
CENT  == 10 * 10
TRIG  == 100 * 100
ANGLE == 1000 * 1000

----------------------------------------------------------------------------
(* Program constants, in the model's units.                                *)

HEX_SIZE           == 1800      \* 18 world units
HEIGHT_SCALE       == 26        \* world units per unit of terrain height
HUMAN_EYE_HEIGHT   == 172       \* 1.72
WALK_SPEED         == 20        \* world units per second
FLY_SPEED          == 32
VERTICAL_FLY_SPEED == 22
LOOK_SENSITIVITY   == 3200      \* 0.0032 rad per pixel
NEAR_PLANE         == 50        \* 0.5
FAR_PLANE          == 110000    \* 1100
CAMERA_UPDATE_MS   == 100
PI                 == 3141593   \* Math.PI
PITCH_MIN          == -1200000  \* -1.2
PITCH_MAX          == 750000    \* 0.75
MAX_DELTA_MS       == 50        \* Math.min(0.05, ...) seconds
FLY_CLEARANCE      == 60        \* ground + 0.6
FLY_ENTRY_LIFT     == 500       \* ground + eye height + 5
SPRINT_PERCENT     == 185       \* x 1.85
PITCH_LOOK_PERCENT == 82        \* x 0.82
SQRT3              == 17321     \* Math.sqrt(3), in 1/TRIG
VIEW_WIDTH         == 800       \* canvas.width  (backing buffer, pixels)
VIEW_HEIGHT        == 600       \* canvas.height
FOCAL_LENGTH       == 894       \* (600 * 0.86) / tan(FOV_RAD / 2), pixels
DEFAULT_PITCH      == -350000   \* -0.35
SCOUT_PITCH        == -380000   \* -0.38
SCOUT_YAW          == -376991   \* -Math.PI * 0.12

----------------------------------------------------------------------------
(* Arithmetic helpers.                                                     *)

Min(a, b) == IF a < b THEN a ELSE b
Max(a, b) == IF a > b THEN a ELSE b
Abs(a)    == IF a < 0 THEN -a ELSE a

\* a / b rounded to the nearest integer (b > 0): a double division followed
\* by the fixed-point rounding.
RDiv(a, b) == IF a >= 0 THEN (a + b \div 2) \div b
                        ELSE -(((-a) + b \div 2) \div b)

\* JavaScript's %: the remainder has the sign of the dividend.
Rem(a, b) == IF a >= 0 THEN a % b ELSE -((-a) % b)

\* Math.sin on an angle in 1/ANGLE rad, result in 1/TRIG: range reduction
\* to [0, PI/2] and the Taylor polynomial up to x^9 in Horner form.
Horner(t2, p, k) == TRIG - ((t2 * p) \div TRIG) \div k
SinPoly(t, t2) ==
  Min(TRIG,
      (t * Horner(t2, Horner(t2, Horner(t2, Horner(t2, TRIG, 72), 42), 20), 6)
       + TRIG \div 2) \div TRIG)
SinQuarter(m) == SinPoly(m \div 100, ((m \div 100) * (m \div 100)) \div TRIG)
SinHalf(m)    == SinQuarter(IF m > PI \div 2 THEN PI - m ELSE m)
SinReduced(r) == IF r < 0 THEN -SinHalf(-r) ELSE SinHalf(r)
Sin(a) == SinReduced(((a + PI) % (2 * PI)) - PI)
Cos(a) == Sin(a + PI \div 2)

----------------------------------------------------------------------------
(* Geometry helpers.                                                       *)

clampNoUpperLimit(value, min, max) == Max(min, value)
clamp(value, min, max) == Min(max, Max(min, value))

FoldByHalfTurn(wrapped, full) == IF wrapped > PI THEN wrapped - PI ELSE wrapped
Fold(wrapped, full) == IF wrapped > PI THEN wrapped - full ELSE wrapped
wrapAngleNoFold(value) == Rem(Rem(value, PI * 2) + PI * 2, PI * 2)
wrapAngle(value) == Fold(Rem(Rem(value, PI * 2) + PI * 2, PI * 2), PI * 2)

\* The six corners of a pointy-top hexagon, corner i at 30 + 60 i degrees.
CornerAngle(i)   == RDiv(PI * (60 * i + 30), 180)
CornerDirections == [i \in 0..5 |-> [cos |-> Cos(CornerAngle(i)),
                                     sin |-> Sin(CornerAngle(i))]]

hexCorners(centerX, centerZ, size) ==
  [n \in 1..6 |->
     [x |-> centerX + RDiv(size * CornerDirections[n - 1].cos, TRIG),
      z |-> centerZ + RDiv(size * CornerDirections[n - 1].sin, TRIG)]]

----------------------------------------------------------------------------
(* Tile colours (src/src/game.tsx).  A colour "#rrggbb" is the triple of    *)
(* its channels; the members of the SurfaceCover and TerrainBiome enums are *)
(* named by their names.                                                    *)

SURFACE_COLORS ==
  [Grass        |-> << 91, 183, 104 >>,
   Dirt         |-> << 134, 96, 74 >>,
   Sand         |-> << 215, 178, 115 >>,
   Rock         |-> << 124, 135, 154 >>,
   Gravel       |-> << 145, 160, 178 >>,
   Snowpack     |-> << 215, 236, 255 >>,
   Ice          |-> << 153, 224, 255 >>,
   Mud          |-> << 105, 80, 60 >>,
   Ash          |-> << 111, 100, 118 >>,
   Cobble       |-> << 155, 167, 184 >>,
   Road         |-> << 111, 106, 96 >>,
   Water        |-> << 63, 131, 210 >>,
   Basalt       |-> << 79, 90, 112 >>,
   Crystal      |-> << 117, 255, 216 >>,
   Sludge       |-> << 93, 121, 72 >>]

BIOME_COLORS ==
  [Plains       |-> << 137, 191, 103 >>,
   Tundra       |-> << 165, 184, 206 >>,
   Savanna      |-> << 200, 180, 112 >>,
   River        |-> << 73, 141, 214 >>,
   City         |-> << 157, 169, 184 >>,
   Village      |-> << 177, 144, 109 >>,
   Ice          |-> << 183, 240, 255 >>,
   Snow         |-> << 226, 244, 255 >>,
   Mountainous  |-> << 122, 133, 150 >>,
   Volcanic     |-> << 141, 108, 105 >>,
   Road         |-> << 122, 116, 105 >>,
   Town         |-> << 149, 135, 116 >>,
   Castle       |-> << 154, 167, 187 >>,
   MixedForest  |-> << 79, 148, 100 >>]

DEFAULT_GRAY == << 139, 158, 182 >>

\* clamp(Math.round(channel * factor), 0, 255), the factor in 1/TRIG.
Channel(channel, factor) == clamp(RDiv(channel * factor, TRIG), 0, 255)

Scaled(color, factor) == [c \in 1..3 |-> Channel(color[c], factor)]

\* withLightness(hex, amount), the amount in 1/TRIG: the factor 1 + amount
\* is clamped to [0.3, 1.8].
withLightness(color, amount) == Scaled(color, clamp(TRIG + amount, 3000, 18000))

defaultBiomeColor(terrain) ==
  IF terrain.biome \in DOMAIN BIOME_COLORS THEN BIOME_COLORS[terrain.biome]
  ELSE DEFAULT_GRAY

\* typeof terrain.surface === "number" && terrain.surface in SURFACE_COLORS
HasKnownSurface(terrain) ==
  "surface" \in DOMAIN terrain /\ terrain.surface \in DOMAIN SURFACE_COLORS

\* The base colour of a terrain; the first variant asks the biome first.
BaseColorBiomeFirst(terrain) ==
  IF terrain.biome \in DOMAIN BIOME_COLORS THEN BIOME_COLORS[terrain.biome]
  ELSE IF HasKnownSurface(terrain) THEN SURFACE_COLORS[terrain.surface]
  ELSE DEFAULT_GRAY
BaseColor(terrain) ==
  IF HasKnownSurface(terrain) THEN SURFACE_COLORS[terrain.surface]
  ELSE defaultBiomeColor(terrain)

\* clamp(terrain.height * 0.28, -0.2, 0.22), in 1/TRIG.
ElevationBoost(terrain) == clamp(terrain.height * 28, -2000, 2200)

resolveTileColor(terrain) == withLightness(BaseColor(terrain), ElevationBoost(terrain))

----------------------------------------------------------------------------
(* The tiling helpers (src/src/game.tsx).  A tile carries its colour; the   *)
(* polygon string of a tile is not modelled.                                *)

axialToPixel(q, r, size) ==
  [x |-> RDiv(size * 3 * q, 2),
   y |-> RDiv((size \div 100) * SQRT3 * (2 * r + q), 2 * (TRIG \div 100))]

DefaultTerrain == [height |-> 0, heat |-> 0, moisture |-> 0, biome |-> "Plains"]

TileOf(cell, terrainCell, p) ==
  [q |-> cell.q, r |-> cell.r, x |-> p.x, y |-> p.y,
   color |-> resolveTileColor(terrainCell), terrain |-> terrainCell]

\* cells.map(...); the first variant stops at the shorter of the two lists.
buildHexMapTilesZipShortest(cells, terrain, size) ==
  [index \in 1..Min(Len(cells), Len(terrain)) |->
     TileOf(cells[index], terrain[index],
            axialToPixel(cells[index].q, cells[index].r, size))]
buildHexMapTiles(cells, terrain, size) ==
  [index \in 1..Len(cells) |->
     TileOf(cells[index],
            IF index <= Len(terrain) THEN terrain[index] ELSE DefaultTerrain,
            axialToPixel(cells[index].q, cells[index].r, size))]

POSITIVE_INFINITY == 2147483647
NEGATIVE_INFINITY == -2147483647

\* Lines 337-342: the box grown by one tile.
GrownBox(box, tile, size) ==
  [minX |-> Min(box.minX, tile.x - size), maxX |-> Max(box.maxX, tile.x + size),
   minY |-> Min(box.minY, tile.y - size), maxY |-> Max(box.maxY, tile.y + size)]

RECURSIVE BoundsScan(_, _, _)
BoundsScan(tiles, size, n) ==
  IF n = 0
  THEN [minX |-> POSITIVE_INFINITY, maxX |-> NEGATIVE_INFINITY,
        minY |-> POSITIVE_INFINITY, maxY |-> NEGATIVE_INFINITY]
  ELSE GrownBox(BoundsScan(tiles, size, n - 1), tiles[n], size)

computeMapBoundsUnpadded(tiles, size) ==
  IF Len(tiles) = 0
  THEN [minX |-> -size, maxX |-> size, minY |-> -size, maxY |-> size]
  ELSE BoundsScan(tiles, 0, Len(tiles))
computeMapBounds(tiles, size) ==
  IF Len(tiles) = 0
  THEN [minX |-> -size, maxX |-> size, minY |-> -size, maxY |-> size]
  ELSE BoundsScan(tiles, size, Len(tiles))

----------------------------------------------------------------------------
(* Ground sampler.  Tile lists are 1-based sequences; the indexes the      *)
(* program computes are 0-based and are kept 0-based here.                 *)

At0(seq, index) == seq[index + 1]

SquaredDistance(dx, dz) == dx * dx + dz * dz

RECURSIVE NearestScan(_, _, _, _, _, _)
NearestStep(tiles, x, z, index, nearestIndex, nearestDistance, distance) ==
  IF distance < nearestDistance
  THEN NearestScan(tiles, x, z, index + 1, index, distance)
  ELSE NearestScan(tiles, x, z, index + 1, nearestIndex, nearestDistance)
NearestScan(tiles, x, z, index, nearestIndex, nearestDistance) ==
  IF index >= Len(tiles) THEN nearestIndex
  ELSE NearestStep(tiles, x, z, index, nearestIndex, nearestDistance,
                   SquaredDistance(At0(tiles, index).x - x, At0(tiles, index).y - z))

\* The scan with <= in place of <: on a tie the last tile wins.
RECURSIVE NearestScanLast(_, _, _, _, _, _)
NearestStepLast(tiles, x, z, index, nearestIndex, nearestDistance, distance) ==
  IF distance <= nearestDistance
  THEN NearestScanLast(tiles, x, z, index + 1, index, distance)
  ELSE NearestScanLast(tiles, x, z, index + 1, nearestIndex, nearestDistance)
NearestScanLast(tiles, x, z, index, nearestIndex, nearestDistance) ==
  IF index >= Len(tiles) THEN nearestIndex
  ELSE NearestStepLast(tiles, x, z, index, nearestIndex, nearestDistance,
                       SquaredDistance(At0(tiles, index).x - x, At0(tiles, index).y - z))

findNearestTileIndexLastWins(tiles, x, z) ==
  IF Len(tiles) = 0 THEN 0
  ELSE NearestScanLast(tiles, x, z, 0, 0, POSITIVE_INFINITY)

findNearestTileIndexNoneFound(tiles, x, z) ==
  IF Len(tiles) = 0 THEN -1
  ELSE NearestScan(tiles, x, z, 0, 0, POSITIVE_INFINITY)

findNearestTileIndex(tiles, x, z) ==
  IF Len(tiles) = 0 THEN 0
  ELSE NearestScan(tiles, x, z, 0, 0, POSITIVE_INFINITY)

\* tile.terrain.height * HEIGHT_SCALE
Elevation(tile) == (tile.terrain.height * HEIGHT_SCALE * UNIT) \div CENT

\* Lines 163-167: tiles[index] is undefined outside the list.
HeightAt(tiles, index) ==
  IF index < 0 \/ index >= Len(tiles) THEN 0 ELSE Elevation(At0(tiles, index))

sampleGroundHeight(tiles, x, z) == HeightAt(tiles, findNearestTileIndex(tiles, x, z))

----------------------------------------------------------------------------
(* Camera pose.                                                            *)

DefaultCamera ==
  [x |-> 0, y |-> HUMAN_EYE_HEIGHT, z |-> 0, yaw |-> 0, pitch |-> DEFAULT_PITCH]

RECURSIVE SumField(_, _, _)
SumField(tiles, f, n) ==
  IF n = 0 THEN 0 ELSE SumField(tiles, f, n - 1) + tiles[n][f]

\* Lines 188-195: the scouting pose over the centroid (x, z).  The first
\* variant stands over the first tile.
ScoutCameraOverFirstTile(tiles, x, z) ==
  [x |-> tiles[1].x,
   y |-> sampleGroundHeight(tiles, tiles[1].x, tiles[1].y) + HUMAN_EYE_HEIGHT,
   z |-> tiles[1].y, yaw |-> SCOUT_YAW, pitch |-> SCOUT_PITCH]
ScoutCamera(tiles, x, z) ==
  [x |-> x, y |-> sampleGroundHeight(tiles, x, z) + HUMAN_EYE_HEIGHT, z |-> z,
   yaw |-> SCOUT_YAW, pitch |-> SCOUT_PITCH]

initialCamera(tiles) ==
  IF Len(tiles) = 0 THEN DefaultCamera
  ELSE ScoutCamera(tiles, RDiv(SumField(tiles, "x", Len(tiles)), Len(tiles)),
                          RDiv(SumField(tiles, "y", Len(tiles)), Len(tiles)))

----------------------------------------------------------------------------
(* Perspective projector.                                                  *)

NullPoint == [null |-> TRUE, x |-> 0, y |-> 0, depth |-> 0]

\* Line 225, with < in place of <= at the near plane.
CulledNearOpen(zPitch) == zPitch < NEAR_PLANE \/ zPitch >= FAR_PLANE
Culled(zPitch) == zPitch <= NEAR_PLANE \/ zPitch >= FAR_PLANE

\* Lines 225-233.
ProjectPitched(xYaw, yPitch, zPitch, viewportWidth, viewportHeight, focalLength) ==
  IF Culled(zPitch)
  THEN NullPoint
  ELSE [null  |-> FALSE,
        x     |-> viewportWidth \div 2 + RDiv(xYaw * focalLength, zPitch),
        y     |-> (viewportHeight * 57) \div 100 - RDiv(yPitch * focalLength, zPitch),
        depth |-> zPitch]

\* Lines 220-223: the rotation by the pitch.
ProjectYawed(xYaw, zYaw, dy, sinPitch, cosPitch, viewportWidth, viewportHeight, focalLength) ==
  ProjectPitched(xYaw,
                 RDiv(cosPitch * dy, TRIG) - RDiv(sinPitch * zYaw, TRIG),
                 RDiv(sinPitch * dy, TRIG) + RDiv(cosPitch * zYaw, TRIG),
                 viewportWidth, viewportHeight, focalLength)

\* Lines 215-218: the rotation by the yaw.
ProjectRelative(dx, dy, dz, sinYaw, cosYaw, sinPitch, cosPitch, viewportWidth, viewportHeight, focalLength) ==
  ProjectYawed(RDiv(cosYaw * dx, TRIG) - RDiv(sinYaw * dz, TRIG),
               RDiv(sinYaw * dx, TRIG) + RDiv(cosYaw * dz, TRIG),
               dy, sinPitch, cosPitch, viewportWidth, viewportHeight, focalLength)

\* Lines 215-216 and 220-221: the sines and cosines of the camera's angles.
CameraTrig(camera) ==
  [sinYaw   |-> Sin(camera.yaw),   cosYaw   |-> Cos(camera.yaw),
   sinPitch |-> Sin(camera.pitch), cosPitch |-> Cos(camera.pitch)]

\* Lines 211-233, given the sines and cosines of the camera's angles.
ProjectFrom(point, camera, trig, viewportWidth, viewportHeight, focalLength) ==
  ProjectRelative(point.x - camera.x, point.y - camera.y, point.z - camera.z,
                  trig.sinYaw, trig.cosYaw, trig.sinPitch, trig.cosPitch,
                  viewportWidth, viewportHeight, focalLength)

projectPoint(point, camera, viewportWidth, viewportHeight, focalLength) ==
  ProjectFrom(point, camera, CameraTrig(camera),
              viewportWidth, viewportHeight, focalLength)

----------------------------------------------------------------------------
(* Scene renderer.  A draw item carries the (0-based) index of its tile    *)
(* in place of the fill colour; the canvas is the sequence of drawing      *)
(* operations of the frame.                                                *)

\* The projections of the corners up to and including the first rejected
\* one (the corner loop breaks there).  Every corner of a frame is projected
\* by projectPoint with the same camera; trig holds CameraTrig of that camera,
\* which is the same in each of these calls.
RECURSIVE ProjectCorners(_, _, _, _, _)
CornerStep(projected, corners, elevation, camera, trig, i) ==
  IF projected.null THEN << projected >>
  ELSE << projected >> \o ProjectCorners(corners, elevation, camera, trig, i + 1)
ProjectCorners(corners, elevation, camera, trig, i) ==
  IF i > Len(corners) THEN << >>
  ELSE CornerStep(ProjectFrom([x |-> corners[i].x, y |-> elevation, z |-> corners[i].z],
                              camera, trig, VIEW_WIDTH, VIEW_HEIGHT, FOCAL_LENGTH),
                  corners, elevation, camera, trig, i)

RECURSIVE DepthTotal(_, _)
DepthTotal(points, n) ==
  IF n = 0 THEN 0 ELSE DepthTotal(points, n - 1) + points[n].depth

DrawItem(index, projected, selectedIndex) ==
  [index       |-> index,
   path        |-> [i \in 1..Len(projected) |-> [x |-> projected[i].x, y |-> projected[i].y]],
   depth       |-> RDiv(DepthTotal(projected, Len(projected)), Len(projected)),
   highlighted |-> index = selectedIndex]

\* Lines 287-308: a tile with a rejected corner is skipped.  The first
\* variant draws the corners projected before the rejected one.
TileStepPartial(projected, rest, index, selectedIndex) ==
  IF Len(projected) = 0 \/ projected[1].null
  THEN rest
  ELSE << DrawItem(index, SelectSeq(projected, LAMBDA p : ~p.null), selectedIndex) >> \o rest
TileStep(projected, rest, index, selectedIndex) ==
  IF (\E i \in 1..Len(projected) : projected[i].null) \/ Len(projected) = 0
  THEN rest
  ELSE << DrawItem(index, projected, selectedIndex) >> \o rest

\* The draw queue before sorting: one item per tile whose corners all project.
RECURSIVE BuildQueue(_, _, _, _, _)
BuildQueue(tiles, camera, trig, selectedIndex, index) ==
  IF index >= Len(tiles) THEN << >>
  ELSE TileStep(ProjectCorners(hexCorners(At0(tiles, index).x, At0(tiles, index).y,
                                          HEX_SIZE),
                               Elevation(At0(tiles, index)), camera, trig, 1),
                BuildQueue(tiles, camera, trig, selectedIndex, index + 1),
                index, selectedIndex)

\* Array.prototype.sort with the comparator (a, b) => b.depth - a.depth:
\* a stable sort into descending depth (insertion from the left).
RECURSIVE InsertByDepthAscending(_, _)
InsertByDepthAscending(sorted, item) ==
  IF Len(sorted) = 0 THEN << item >>
  ELSE IF Head(sorted).depth <= item.depth
       THEN << Head(sorted) >> \o InsertByDepthAscending(Tail(sorted), item)
       ELSE << item >> \o sorted

RECURSIVE InsertByDepth(_, _)
InsertByDepth(sorted, item) ==
  IF Len(sorted) = 0 THEN << item >>
  ELSE IF Head(sorted).depth >= item.depth
       THEN << Head(sorted) >> \o InsertByDepth(Tail(sorted), item)
       ELSE << item >> \o sorted

RECURSIVE SortQueue(_, _)
SortQueue(queue, n) ==
  IF n = 0 THEN << >> ELSE InsertByDepth(SortQueue(queue, n - 1), queue[n])

Sorted(queue) == SortQueue(queue, Len(queue))

RECURSIVE DrawItems(_)
DrawItems(queue) ==
  IF Len(queue) = 0 THEN << >>
  ELSE << [op |-> "fill",   index |-> Head(queue).index, highlighted |-> Head(queue).highlighted],
          [op |-> "stroke", index |-> Head(queue).index, highlighted |-> Head(queue).highlighted] >>
       \o DrawItems(Tail(queue))

SkyOp       == [op |-> "sky", index |-> -1, highlighted |-> FALSE]
CrosshairOp == [op |-> "crosshair", index |-> -1, highlighted |-> FALSE]

\* Lines 246-251 and 313-332: the sky, the items in queue order, the crosshair.
Drawn(drawQueue) ==
  [drawQueue |-> drawQueue,
   ops       |-> << SkyOp >> \o DrawItems(drawQueue) \o << CrosshairOp >>]

\* One call of renderScene: the sorted draw queue and the operations drawn.
renderScene(tiles, camera, selectedIndex) ==
  Drawn(Sorted(BuildQueue(tiles, camera, CameraTrig(camera), selectedIndex, 0)))

----------------------------------------------------------------------------
(* The game-state store (gameReducer) and the selected-tile panel.         *)

initialState == [score |-> 0, level |-> 1, isPaused |-> FALSE]

\* Lines 31-44.  The first variant starts the score anew on a new level.
gameReducerLevelClearsScore(state, action) ==
  CASE action.type = "INCREMENT_SCORE" -> [state EXCEPT !.score = state.score + action.payload]
    [] action.type = "SET_LEVEL"       -> [state EXCEPT !.level = action.payload, !.score = 0]
    [] action.type = "TOGGLE_PAUSE"    -> [state EXCEPT !.isPaused = ~state.isPaused]
    [] action.type = "RESET_GAME"      -> initialState
    [] OTHER                           -> state
gameReducer(state, action) ==
  CASE action.type = "INCREMENT_SCORE" -> [state EXCEPT !.score = state.score + action.payload]
    [] action.type = "SET_LEVEL"       -> [state EXCEPT !.level = action.payload]
    [] action.type = "TOGGLE_PAUSE"    -> [state EXCEPT !.isPaused = ~state.isPaused]
    [] action.type = "RESET_GAME"      -> initialState
    [] OTHER                           -> state

\* Lines 374-375.  The first variant also accepts the index tiles.length.
safeSelectedIndexInclusive(stored, theTiles) ==
  IF stored >= 0 /\ stored <= Len(theTiles) THEN stored ELSE 0
safeSelectedIndex(stored, theTiles) ==
  IF stored >= 0 /\ stored < Len(theTiles) THEN stored ELSE 0

----------------------------------------------------------------------------
(* Bounds and inputs of the model.                                         *)

MaxEvents == 3      \* input events (keys, pointer, blur, buttons) per run
MaxClock  == 80     \* the clock (ms) up to which frames are delivered
MaxQuietEvents == 1 \* input events of a quiet run, which is followed for longer
MaxQuietClock == 280 \* the clock (ms) up to which a quiet run is followed

\* Outputs of the external world generator: cells and index-aligned terrain.
Cell(q, r)  == [q |-> q, r |-> r, level |-> 0]
Terrain(h)  == [height |-> h, heat |-> 50, moisture |-> 40, biome |-> "Plains"]
\* The empty world; two neighbours, the camera starting on their border and
\* facing the higher one; three cells in a line, two of them ahead of the camera.
Worlds ==
  { [cells |-> << >>, terrain |-> << >>],
    [cells |-> << Cell(0, 0), Cell(0, 1) >>,
     terrain |-> << Terrain(20), Terrain(80) >>],
    [cells |-> << Cell(0, -3), Cell(0, 1), Cell(0, 2) >>,
     terrain |-> << Terrain(50), Terrain(10), Terrain(30) >>] }

KeyCodes     == {"KeyW", "KeyQ", "ShiftLeft", "KeyF"}
PointerIds   == {1, 2}
ClientPoints == { [x |-> 0, y |-> 0], [x |-> 1000, y |-> 500] }
FrameGaps    == {40, 80}   \* ms between two frame deliveries
FrameSkews   == {0, 50}    \* ms by which a frame's timestamp trails the clock

----------------------------------------------------------------------------
(* State.                                                                  *)

VARIABLES
  tiles,          \* useMemo: buildHexMapTiles(world.cells, world.terrain, HEX_SIZE)
  mode,           \* useState: "walk" | "fly"
  selectedIndex,  \* useState
  cameraHud,      \* useState
  camera,         \* cameraRef.current
  keys,           \* keysRef.current
  drag,           \* dragRef.current
  loop,           \* the render-loop effect's closure: frame, lastTime, hudAccumulator
  pendingFrames,  \* requestAnimationFrame requests not yet run or cancelled
  listeners,      \* window listeners attached by the render-loop effect
  clock,          \* performance.now()
  rafTime,        \* the timestamp of the last frame delivered
  frameOut,       \* the last tick: what it drew, its deltaSeconds (in ms),
                  \* the keys and the mode it read
  nEvents,        \* input events delivered so far
  event,          \* the last input event delivered
  unmounted,      \* the component was unmounted
  hudPushes,      \* the timestamps of the frames that pushed to the HUD
  budget,         \* how far the run is followed: input events and clock (ms)
  call            \* a call of a pure helper: its arguments and result

vars == << tiles, mode, selectedIndex, cameraHud, camera, keys, drag, loop,
           pendingFrames, listeners, clock, rafTime, frameOut, nEvents, event,
           unmounted, hudPushes, budget, call >>

NoCall      == [fn |-> "none"]
NoFrame     == [drawQueue |-> << >>, ops |-> << >>, deltaMs |-> 0,
                keys |-> {}, mode |-> "walk"]
IdleLoop    == [active |-> FALSE, frame |-> 0, lastTime |-> 0, hudAccumulator |-> 0]
LoopListeners == {"keydown", "keyup", "blur"}
InitialDrag == [active |-> FALSE, pointerId |-> -1, lastX |-> 0, lastY |-> 0]

Hud(cam, ground) ==
  [x |-> cam.x, y |-> cam.y, z |-> cam.z, yaw |-> cam.yaw, pitch |-> cam.pitch,
   ground |-> ground]

----------------------------------------------------------------------------
(* The effects of the Game component.                                      *)

\* Lines 380-386: what the camera-init effect writes for its pose.
CameraInitWrites(newTiles, cam) ==
  [camera        |-> cam,
   selectedIndex |-> findNearestTileIndex(newTiles, cam.x, cam.z),
   cameraHud     |-> Hud(cam, sampleGroundHeight(newTiles, cam.x, cam.z))]

\* useEffect [tiles]: the camera-init effect.
CameraInitEffect(newTiles) == CameraInitWrites(newTiles, initialCamera(newTiles))

\* Lines 391-396.  The first variant never lowers the camera in walk mode.
ModeHeightWalkKeepsHeight(cam, ground, theMode) ==
  IF theMode = "walk"
  THEN [cam EXCEPT !.y = Max(cam.y, ground + HUMAN_EYE_HEIGHT)]
  ELSE [cam EXCEPT !.y = Max(cam.y, ground + HUMAN_EYE_HEIGHT + FLY_ENTRY_LIFT)]
ModeHeight(cam, ground, theMode) ==
  IF theMode = "walk"
  THEN [cam EXCEPT !.y = ground + HUMAN_EYE_HEIGHT]
  ELSE [cam EXCEPT !.y = Max(cam.y, ground + HUMAN_EYE_HEIGHT + FLY_ENTRY_LIFT)]

\* useEffect [mode, tiles]: the mode effect, on the camera it finds.
ModeEffect(cam, theTiles, theMode) ==
  ModeHeight(cam, sampleGroundHeight(theTiles, cam.x, cam.z), theMode)

\* window.requestAnimationFrame: a request id that is not pending.
RequestId(pending) == CHOOSE n \in 1..(Cardinality(pending) + 1) : n \notin pending

\* The cleanup of the render-loop effect (when the effect had started a loop).
\* The first variant leaves the requested frame pending.
CancelledFramesNone == pendingFrames
CancelledFrames == IF loop.active THEN pendingFrames \ {loop.frame} ELSE pendingFrames
DetachedListeners == IF loop.active THEN listeners \ LoopListeners ELSE listeners

\* useEffect [mode, tiles]: the render-loop effect, after the cleanup of the
\* previous one.  It returns early, starting nothing, when there are no tiles.
LoopEffectStartsAlways(newTiles) == TRUE
LoopEffectStarts(newTiles) == Len(newTiles) # 0

\* Lines 410, 454-456 and 517: the loop starts with the frame it requested.
\* The first variant requests a second frame besides.
StartedWithTwoRequests(frame, pending, attached) ==
  /\ loop' = [active |-> TRUE, frame |-> frame, lastTime |-> clock,
              hudAccumulator |-> 0]
  /\ pendingFrames' = pending \cup {frame, frame + 1}
  /\ listeners' = attached \cup LoopListeners
StartedWith(frame, pending, attached) ==
  /\ loop' = [active |-> TRUE, frame |-> frame, lastTime |-> clock,
              hudAccumulator |-> 0]
  /\ pendingFrames' = pending \cup {frame}
  /\ listeners' = attached \cup LoopListeners

StartLoop(newTiles) ==
  IF ~LoopEffectStarts(newTiles)
  THEN /\ loop' = IdleLoop
       /\ pendingFrames' = CancelledFrames
       /\ listeners' = DetachedListeners
  ELSE StartedWith(RequestId(CancelledFrames), CancelledFrames, DetachedListeners)

----------------------------------------------------------------------------
(* The frame callback (tick).                                              *)

Has(theKeys, a, b) == a \in theKeys \/ b \in theKeys

\* deltaSeconds, in ms.  The first variant has no upper limit.
DeltaMsUnclamped(now, lastTime) == now - lastTime
DeltaMs(now, lastTime) == Min(MAX_DELTA_MS, now - lastTime)

\* speed, in tenths of a world unit per second.
BaseSpeed(theMode) == IF theMode = "fly" THEN FLY_SPEED ELSE WALK_SPEED
Speed(theKeys, theMode) ==
  IF Has(theKeys, "ShiftLeft", "ShiftRight")
  THEN (BaseSpeed(theMode) * SPRINT_PERCENT) \div 10
  ELSE BaseSpeed(theMode) * 10

InputX(theKeys) ==
  (IF Has(theKeys, "KeyD", "ArrowRight") THEN 1 ELSE 0)
  - (IF Has(theKeys, "KeyA", "ArrowLeft") THEN 1 ELSE 0)
InputZ(theKeys) ==
  (IF Has(theKeys, "KeyW", "ArrowUp") THEN 1 ELSE 0)
  - (IF Has(theKeys, "KeyS", "ArrowDown") THEN 1 ELSE 0)

\* Math.hypot of two inputs in {-1, 0, 1}, in 1/TRIG.
Hypot(ix, iz) == IF ix # 0 /\ iz # 0 THEN 14142 ELSE IF ix # 0 \/ iz # 0 THEN TRIG ELSE 0

\* Lines 484-485: the step along the direction (dirX, dirZ).
MoveAlong(cam, dirX, dirZ, speed, deltaMs) ==
  [cam EXCEPT !.x = cam.x + RDiv(dirX * speed * deltaMs, 1000000),
              !.z = cam.z + RDiv(dirZ * speed * deltaMs, 1000000)]

\* Lines 475-483: the normalised input (nx, nz) turned by the yaw.
MoveInput(cam, nx, nz, sinYaw, cosYaw, speed, deltaMs) ==
  MoveAlong(cam,
            RDiv(nx * cosYaw, TRIG) + RDiv(nz * sinYaw, TRIG),
            RDiv(nz * cosYaw, TRIG) - RDiv(nx * sinYaw, TRIG),
            speed, deltaMs)

\* Lines 472-485, for an input of length inputLength.
MoveInputOf(cam, inputX, inputZ, inputLength, speed, deltaMs) ==
  IF inputLength > 0
  THEN MoveInput(cam, RDiv(inputX * TRIG * TRIG, inputLength),
                      RDiv(inputZ * TRIG * TRIG, inputLength),
                 Sin(cam.yaw), Cos(cam.yaw), speed, deltaMs)
  ELSE cam

\* Lines 470-485: the planar movement of one frame.
MovePlanar(cam, theKeys, theMode, deltaMs) ==
  MoveInputOf(cam, InputX(theKeys), InputZ(theKeys),
              Hypot(InputX(theKeys), InputZ(theKeys)),
              Speed(theKeys, theMode), deltaMs)

VerticalInput(theKeys) ==
  (IF Has(theKeys, "Space", "KeyE") THEN 1 ELSE 0)
  - (IF Has(theKeys, "KeyC", "KeyQ") THEN 1 ELSE 0)

\* Lines 487-496: the height of the camera after the movement.
WalkHeightNeverLowered(ground, y) == Max(y, ground + HUMAN_EYE_HEIGHT)
WalkHeight(ground, y) == ground + HUMAN_EYE_HEIGHT

FlyHeightNoFloor(ground, y, theKeys, deltaMs) ==
  y + RDiv(VerticalInput(theKeys) * VERTICAL_FLY_SPEED * deltaMs, 10)
FlyHeight(ground, y, theKeys, deltaMs) ==
  Max(y + RDiv(VerticalInput(theKeys) * VERTICAL_FLY_SPEED * deltaMs, 10),
      ground + FLY_CLEARANCE)

\* Lines 487-499: the moved camera settled on the ground under it.  The
\* first variant applies the vertical keys in walk mode as well.
SettleVerticalInWalk(moved, ground, theMode, theKeys, deltaMs) ==
  [moved EXCEPT !.y     = IF theMode = "walk" /\ VerticalInput(theKeys) = 0
                          THEN WalkHeight(ground, moved.y)
                          ELSE FlyHeight(ground, moved.y, theKeys, deltaMs),
                !.pitch = clamp(moved.pitch, PITCH_MIN, PITCH_MAX),
                !.yaw   = wrapAngle(moved.yaw)]
Settle(moved, ground, theMode, theKeys, deltaMs) ==
  [moved EXCEPT !.y     = IF theMode = "walk"
                          THEN WalkHeight(ground, moved.y)
                          ELSE FlyHeight(ground, moved.y, theKeys, deltaMs),
                !.pitch = clamp(moved.pitch, PITCH_MIN, PITCH_MAX),
                !.yaw   = wrapAngle(moved.yaw)]

SettleMoved(moved, theTiles, theMode, theKeys, deltaMs) ==
  Settle(moved, sampleGroundHeight(theTiles, moved.x, moved.z),
         theMode, theKeys, deltaMs)

\* Lines 461-499: the camera pose after one frame.
UpdateCamera(cam, theTiles, theMode, theKeys, deltaMs) ==
  SettleMoved(MovePlanar(cam, theKeys, theMode, deltaMs),
              theTiles, theMode, theKeys, deltaMs)

\* Line 505: the HUD is due once the accumulator has reached the interval.
HudDueEveryFrame(accumulated) == TRUE
HudDue(accumulated) == accumulated >= CAMERA_UPDATE_MS

\* Lines 459-460 and 501-514: the writes of one frame, given what it computed.
FrameWrites(now, deltaMs, cam, ground, nearestIndex, scene, accumulated, frame) ==
  /\ rafTime' = now
  /\ camera' = cam
  /\ frameOut' = [drawQueue |-> scene.drawQueue, ops |-> scene.ops,
                  deltaMs |-> deltaMs, keys |-> keys, mode |-> mode]
  /\ selectedIndex' = IF HudDue(accumulated) THEN nearestIndex ELSE selectedIndex
  /\ cameraHud' = IF HudDue(accumulated) THEN Hud(cam, ground) ELSE cameraHud
  /\ hudPushes' = IF HudDue(accumulated) THEN Append(hudPushes, now) ELSE hudPushes
  /\ loop' = [loop EXCEPT !.lastTime = now,
                          !.hudAccumulator = IF HudDue(accumulated)
                                             THEN 0 ELSE accumulated,
                          !.frame = frame]
  /\ pendingFrames' = (pendingFrames \ {loop.frame}) \cup {frame}

\* Lines 487 and 501: the ground and the nearest tile under the new pose.
\* The first variant renders with the selected index of the last HUD push.
FrameAtSelected(now, deltaMs, cam, ground, nearestIndex) ==
  FrameWrites(now, deltaMs, cam, ground, nearestIndex,
              renderScene(tiles, cam, selectedIndex),
              loop.hudAccumulator + deltaMs,
              RequestId(pendingFrames \ {loop.frame}))
FrameAt(now, deltaMs, cam, ground, nearestIndex) ==
  FrameWrites(now, deltaMs, cam, ground, nearestIndex,
              renderScene(tiles, cam, nearestIndex),
              loop.hudAccumulator + deltaMs,
              RequestId(pendingFrames \ {loop.frame}))

FrameOf(now, deltaMs, cam) ==
  FrameAt(now, deltaMs, cam,
          sampleGroundHeight(tiles, cam.x, cam.z),
          findNearestTileIndex(tiles, cam.x, cam.z))

Frame(now, deltaMs) ==
  FrameOf(now, deltaMs, UpdateCamera(camera, tiles, mode, keys, deltaMs))

\* The browser runs the pending frame callback with the timestamp now.
Tick(gap, skew) ==
  /\ loop.active
  /\ loop.frame \in pendingFrames
  /\ clock + gap <= budget.clock
  /\ clock + gap - skew >= rafTime
  /\ clock' = clock + gap
  /\ Frame(clock + gap - skew, DeltaMs(clock + gap - skew, loop.lastTime))
  /\ UNCHANGED << tiles, mode, keys, drag, listeners, nEvents, event, unmounted,
                  budget, call >>

----------------------------------------------------------------------------
(* State changes of the component: each re-renders and re-runs the         *)
(* effects whose dependencies changed, in the order they are declared.     *)

Toggle(theMode) == IF theMode = "walk" THEN "fly" ELSE "walk"

\* The browser delivers one more input event, of the given type (and, for a
\* key event, with the given code).
Delivered(type, code) ==
  /\ nEvents < budget.events
  /\ nEvents' = nEvents + 1
  /\ event' = [type |-> type, code |-> code]
  /\ UNCHANGED << hudPushes, budget >>

\* The same for an event of the pointer with the given id.
DeliveredPointer(type, pointerId) ==
  /\ nEvents < budget.events
  /\ nEvents' = nEvents + 1
  /\ event' = [type |-> type, code |-> "", pointerId |-> pointerId]
  /\ UNCHANGED << hudPushes, budget >>

\* setMode(toggle): the mode effect and the render-loop effect run again.
SetMode ==
  /\ ~unmounted
  /\ mode' = Toggle(mode)
  /\ camera' = ModeEffect(camera, tiles, Toggle(mode))
  /\ StartLoop(tiles)
  /\ UNCHANGED << tiles, selectedIndex, cameraHud, keys, drag, clock, rafTime,
                  frameOut, unmounted, call >>

\* The three effects on a new tile list, in order.
EffectsOn(newTiles, init) ==
  /\ tiles' = newTiles
  /\ selectedIndex' = init.selectedIndex
  /\ cameraHud' = init.cameraHud
  /\ camera' = ModeEffect(init.camera, newTiles, mode)
  /\ StartLoop(newTiles)

\* The first variant initialises from the pose the camera has.
RegenerateToKeepingPose(newTiles) == EffectsOn(newTiles, CameraInitWrites(newTiles, camera))
RegenerateTo(newTiles) == EffectsOn(newTiles, CameraInitEffect(newTiles))

\* handleRegenerate: a new seed gives a new world and so a new tile list;
\* all three effects run again.
Regenerate(world) ==
  /\ ~unmounted
  /\ Delivered("regenerate", "")
  /\ RegenerateTo(buildHexMapTiles(world.cells, world.terrain, HEX_SIZE))
  /\ UNCHANGED << mode, keys, drag, clock, rafTime, frameOut, unmounted, call >>

ClickModeButton ==
  /\ Delivered("mode-button", "")
  /\ SetMode

\* The component is unmounted: the cleanup of the render-loop effect runs.
Unmount ==
  /\ ~unmounted
  /\ Delivered("unmount", "")
  /\ unmounted' = TRUE
  /\ loop' = IdleLoop
  /\ pendingFrames' = CancelledFrames
  /\ listeners' = DetachedListeners
  /\ UNCHANGED << tiles, mode, selectedIndex, cameraHud, camera, keys, drag, clock,
                  rafTime, frameOut, call >>

----------------------------------------------------------------------------
(* Window listeners of the render loop.                                    *)

\* The first variant returns early on auto-repeat for the other keys only.
onKeyDownOnRepeat(code, repeat) ==
  /\ "keydown" \in listeners
  /\ Delivered(IF repeat THEN "keydown-repeat" ELSE "keydown", code)
  /\ IF repeat /\ code # "KeyF"
     THEN UNCHANGED << tiles, mode, selectedIndex, cameraHud, camera, keys, drag,
                       loop, pendingFrames, listeners, clock, rafTime, frameOut, unmounted, call >>
     ELSE IF code = "KeyF"
          THEN SetMode
          ELSE /\ keys' = keys \cup {code}
               /\ UNCHANGED << tiles, mode, selectedIndex, cameraHud, camera, drag,
                               loop, pendingFrames, listeners, clock, rafTime,
                               frameOut, unmounted, call >>

onKeyDown(code, repeat) ==
  /\ "keydown" \in listeners
  /\ Delivered(IF repeat THEN "keydown-repeat" ELSE "keydown", code)
  /\ IF repeat
     THEN UNCHANGED << tiles, mode, selectedIndex, cameraHud, camera, keys, drag,
                       loop, pendingFrames, listeners, clock, rafTime, frameOut, unmounted, call >>
     ELSE IF code = "KeyF"
          THEN SetMode
          ELSE /\ keys' = keys \cup {code}
               /\ UNCHANGED << tiles, mode, selectedIndex, cameraHud, camera, drag,
                               loop, pendingFrames, listeners, clock, rafTime,
                               frameOut, unmounted, call >>

onKeyUp(code) ==
  /\ "keyup" \in listeners
  /\ Delivered("keyup", code)
  /\ keys' = keys \ {code}
  /\ UNCHANGED << tiles, mode, selectedIndex, cameraHud, camera, drag, loop,
                  pendingFrames, listeners, clock, rafTime, frameOut, unmounted, call >>

\* The first variant clears the keys and leaves the drag as it is.
onBlurKeysOnly ==
  /\ "blur" \in listeners
  /\ Delivered("blur", "")
  /\ keys' = {}
  /\ UNCHANGED drag
  /\ UNCHANGED << tiles, mode, selectedIndex, cameraHud, camera, loop,
                  pendingFrames, listeners, clock, rafTime, frameOut, unmounted, call >>

onBlur ==
  /\ "blur" \in listeners
  /\ Delivered("blur", "")
  /\ keys' = {}
  /\ drag' = [drag EXCEPT !.active = FALSE]
  /\ UNCHANGED << tiles, mode, selectedIndex, cameraHud, camera, loop,
                  pendingFrames, listeners, clock, rafTime, frameOut, unmounted, call >>

----------------------------------------------------------------------------
(* Pointer handlers of the canvas.                                         *)

\* Lines 549-551: the pose after a drag by (dx, dy) pixels.
Look(cam, dx, dy) ==
  [cam EXCEPT
     !.yaw   = wrapAngle(cam.yaw + dx * LOOK_SENSITIVITY),
     !.pitch = clamp(cam.pitch - (dy * LOOK_SENSITIVITY * PITCH_LOOK_PERCENT) \div 100,
                     PITCH_MIN, PITCH_MAX)]

\* The first variant already turns the camera when the pointer goes down.
handlePointerDownLooking(pointerId, clientX, clientY) ==
  /\ ~unmounted
  /\ DeliveredPointer("pointerdown", pointerId)
  /\ drag' = [active |-> TRUE, pointerId |-> pointerId,
              lastX |-> clientX, lastY |-> clientY]
  /\ camera' = Look(camera, clientX - drag.lastX, clientY - drag.lastY)
  /\ UNCHANGED << tiles, mode, selectedIndex, cameraHud, keys, loop,
                  pendingFrames, listeners, clock, rafTime, frameOut, unmounted, call >>
handlePointerDown(pointerId, clientX, clientY) ==
  /\ ~unmounted
  /\ DeliveredPointer("pointerdown", pointerId)
  /\ drag' = [active |-> TRUE, pointerId |-> pointerId,
              lastX |-> clientX, lastY |-> clientY]
  /\ UNCHANGED << tiles, mode, selectedIndex, cameraHud, camera, keys, loop,
                  pendingFrames, listeners, clock, rafTime, frameOut, unmounted, call >>

\* The first variant follows any pointer while a drag is active.
handlePointerMoveAnyPointer(pointerId, clientX, clientY) ==
  /\ ~unmounted
  /\ DeliveredPointer("pointermove", pointerId)
  /\ IF ~drag.active
     THEN UNCHANGED << camera, drag >>
     ELSE /\ drag' = [drag EXCEPT !.lastX = clientX, !.lastY = clientY]
          /\ camera' = Look(camera, clientX - drag.lastX, clientY - drag.lastY)
  /\ UNCHANGED << tiles, mode, selectedIndex, cameraHud, keys, loop,
                  pendingFrames, listeners, clock, rafTime, frameOut, unmounted, call >>
handlePointerMove(pointerId, clientX, clientY) ==
  /\ ~unmounted
  /\ DeliveredPointer("pointermove", pointerId)
  /\ IF ~drag.active \/ drag.pointerId # pointerId
     THEN UNCHANGED << camera, drag >>
     ELSE /\ drag' = [drag EXCEPT !.lastX = clientX, !.lastY = clientY]
          /\ camera' = Look(camera, clientX - drag.lastX, clientY - drag.lastY)
  /\ UNCHANGED << tiles, mode, selectedIndex, cameraHud, keys, loop,
                  pendingFrames, listeners, clock, rafTime, frameOut, unmounted, call >>

\* onPointerUp and onPointerCancel share the handler.
handlePointerUp(pointerId) ==
  /\ ~unmounted
  /\ DeliveredPointer("pointerup", pointerId)
  /\ IF drag.pointerId # pointerId
     THEN UNCHANGED drag
     ELSE drag' = [drag EXCEPT !.active = FALSE, !.pointerId = -1]
  /\ UNCHANGED << tiles, mode, selectedIndex, cameraHud, camera, keys, loop,
                  pendingFrames, listeners, clock, rafTime, frameOut, unmounted, call >>

----------------------------------------------------------------------------
(* The component after mounting: the state of the first render, then the   *)
(* three effects in order.                                                 *)

MountedWith(newTiles, init, starts) ==
  /\ tiles = newTiles
  /\ mode = "walk"
  /\ selectedIndex = init.selectedIndex
  /\ cameraHud = init.cameraHud
  /\ camera = ModeEffect(init.camera, newTiles, "walk")
  /\ keys = {}
  /\ drag = InitialDrag
  /\ clock = 0
  /\ rafTime = 0 - 50
  /\ loop = IF starts THEN [active |-> TRUE, frame |-> 1, lastTime |-> 0,
                            hudAccumulator |-> 0]
                      ELSE IdleLoop
  /\ pendingFrames = IF starts THEN {1} ELSE {}
  /\ listeners = IF starts THEN LoopListeners ELSE {}
  /\ frameOut = NoFrame
  /\ nEvents = 0
  /\ event = [type |-> "none", code |-> ""]
  /\ unmounted = FALSE
  /\ hudPushes = << >>

MountedOn(newTiles) ==
  MountedWith(newTiles, CameraInitEffect(newTiles), LoopEffectStarts(newTiles))

Mounted(world) == MountedOn(buildHexMapTiles(world.cells, world.terrain, HEX_SIZE))

Init ==
  /\ \E world \in Worlds : Mounted(world)
  /\ budget = [events |-> MaxEvents, clock |-> MaxClock]
  /\ call = NoCall

Next ==
  \/ \E gap \in FrameGaps, skew \in FrameSkews : Tick(gap, skew)
  \/ \E code \in KeyCodes, repeat \in BOOLEAN : onKeyDown(code, repeat)
  \/ \E code \in KeyCodes : onKeyUp(code)
  \/ onBlur
  \/ \E id \in PointerIds, p \in ClientPoints : handlePointerDown(id, p.x, p.y)
  \/ \E id \in PointerIds, p \in ClientPoints : handlePointerMove(id, p.x, p.y)
  \/ \E id \in PointerIds : handlePointerUp(id)
  \/ ClickModeButton
  \/ Unmount
  \/ \E world \in Worlds : Regenerate(world)

Spec == Init /\ [][Next]_vars

\* A quiet run: the same component, fewer input events, followed for longer.
QuietInit ==
  /\ \E world \in Worlds : Mounted(world)
  /\ budget = [events |-> MaxQuietEvents, clock |-> MaxQuietClock]
  /\ call = NoCall

SpecQuiet == QuietInit /\ [][Next]_vars

----------------------------------------------------------------------------
(* Calls of the pure helpers on bounded inputs: the component stays as     *)
(* mounted on the empty world; one call is made and returns.               *)

MaxTiles == 3      \* tiles per list in a helper call

MakeTerrain(x, y) ==
  [height |-> 10 + x \div 10 + y \div 5, heat |-> 0, moisture |-> 0,
   biome |-> "Plains"]
MakeTile(x, y) ==
  [q |-> 0, r |-> 0, x |-> x, y |-> y,
   color |-> resolveTileColor(MakeTerrain(x, y)), terrain |-> MakeTerrain(x, y)]
TilePool == { MakeTile(x, y) : x \in {0, 200}, y \in {0, 200} }

RECURSIVE ListsOf(_, _)
ListsOf(pool, n) ==
  IF n = 0 THEN { << >> }
  ELSE LET shorter == ListsOf(pool, n - 1)
       IN  shorter \cup { Append(l, t) : l \in { k \in shorter : Len(k) = n - 1 },
                                         t \in pool }
TileLists == ListsOf(TilePool, MaxTiles)

QueryXs == {-50, 0, 100, 150}
QueryZs == {0, 100}

CallCameras ==
  { [x |-> 0, y |-> y, z |-> 0, yaw |-> yaw, pitch |-> pitch] :
      y \in {0, HUMAN_EYE_HEIGHT}, yaw \in {0, SCOUT_YAW, PI \div 2},
      pitch \in {0, SCOUT_PITCH, PITCH_MIN} }
CallPoints ==
  { [x |-> x, y |-> y, z |-> z] :
      x \in {0, 500}, y \in {0, HUMAN_EYE_HEIGHT},
      z \in {-100, 0, NEAR_PLANE, NEAR_PLANE + 1, 1000,
             FAR_PLANE - 1, FAR_PLANE, FAR_PLANE + 10000} }

NearestCalls ==
  { [fn |-> "findNearestTileIndex", tiles |-> l, x |-> x, z |-> z, done |-> FALSE, ret |-> 0] :
      l \in TileLists, x \in QueryXs, z \in QueryZs }
GroundCalls ==
  { [fn |-> "sampleGroundHeight", tiles |-> l, x |-> x, z |-> z, done |-> FALSE, ret |-> 0] :
      l \in TileLists, x \in QueryXs, z \in QueryZs }
CameraCalls ==
  { [fn |-> "initialCamera", tiles |-> l, done |-> FALSE, ret |-> DefaultCamera] :
      l \in TileLists }
MaxCells == 2      \* cells per list in a call of buildHexMapTiles

CellPool    == { Cell(0, 0), Cell(1, 0), Cell(-1, 2) }
TerrainPool == { Terrain(20),
                 [height |-> 100, heat |-> 10, moisture |-> 90, biome |-> "River",
                  surface |-> "Water"] }
CellLists    == ListsOf(CellPool, MaxCells)
\* Terrain lists shorter than, as long as and longer than the cell lists.
TerrainLists == ListsOf(TerrainPool, MaxCells + 1)

BoxSizes == {0, 10, HEX_SIZE}

\* Terrains with and without a surface, with known and unknown palette keys.
ColorTerrains ==
  { [height |-> h, heat |-> 0, moisture |-> 0, biome |-> b] :
      h \in {-100, 0, 50, 100}, b \in {"Plains", "MixedForest", "Swamp"} }
  \cup
  { [height |-> h, heat |-> 0, moisture |-> 0, biome |-> b, surface |-> c] :
      h \in {-100, 0, 50, 100}, b \in {"Plains", "MixedForest", "Swamp"},
      c \in {"Grass", "Water", "Lava"} }

CameraInitCalls ==
  { [fn |-> "cameraInitEffect", tiles |-> l, done |-> FALSE,
     ret |-> [camera |-> DefaultCamera, selectedIndex |-> 0,
              cameraHud |-> Hud(DefaultCamera, 0)]] :
      l \in TileLists }
BuildCalls ==
  { [fn |-> "buildHexMapTiles", cells |-> c, terrain |-> t, done |-> FALSE, ret |-> << >>] :
      c \in CellLists, t \in TerrainLists }
BoundsCalls ==
  { [fn |-> "computeMapBounds", tiles |-> l, size |-> size, done |-> FALSE,
     ret |-> [minX |-> 0, maxX |-> 0, minY |-> 0, maxY |-> 0]] :
      l \in TileLists, size \in BoxSizes }
ColorCalls ==
  { [fn |-> "resolveTileColor", terrain |-> t, done |-> FALSE, ret |-> << 0, 0, 0 >>] :
      t \in ColorTerrains }
\* Angles to wrap: zero, both signs, odd and even multiples of pi, many turns.
WrapInputs ==
  { 0, 1, -1, PI, -PI, PI + 1, -PI - 1, 2 * PI, -2 * PI, 2 * PI + 1,
    3 * PI, -3 * PI, 7 * PI, -7 * PI + 5, 200 * PI, -200 * PI - 3,
    SCOUT_YAW, SCOUT_YAW - 1000 * LOOK_SENSITIVITY }
WrapCalls ==
  { [fn |-> "wrapAngle", value |-> v, done |-> FALSE, ret |-> 0] : v \in WrapInputs }

\* Stored indexes below, inside and beyond every tile list.
StoredIndexes == (-1)..(MaxTiles + 1)
SafeIndexCalls ==
  { [fn |-> "safeSelectedIndex", stored |-> i, tiles |-> l, done |-> FALSE, ret |-> 0] :
      i \in StoredIndexes, l \in TileLists }

GameStates ==
  { [score |-> s, level |-> l, isPaused |-> p] :
      s \in {0, 10}, l \in {1, 3}, p \in BOOLEAN }
GameActions ==
  { [type |-> "INCREMENT_SCORE", payload |-> n] : n \in {0, 5, -3} }
  \cup { [type |-> "SET_LEVEL", payload |-> n] : n \in {1, 2} }
  \cup { [type |-> t] : t \in {"TOGGLE_PAUSE", "RESET_GAME", "UNKNOWN"} }
\* A dispatch of the same action, up to twice: state is the state before the
\* last dispatch and ret the state after it.
ReducerCalls ==
  { [fn |-> "gameReducer", first |-> s, state |-> s, action |-> a, dispatched |-> 0,
     done |-> FALSE, ret |-> s] :
      s \in GameStates, a \in GameActions }
\* Scenes: the tiles of each world, seen from where the camera is mounted,
\* from the same place facing backwards, and from high above looking down.
RenderTiles == { buildHexMapTiles(w.cells, w.terrain, HEX_SIZE) : w \in Worlds }
RenderCameras(l) ==
  { ModeEffect(initialCamera(l), l, "walk"),
    [ModeEffect(initialCamera(l), l, "walk") EXCEPT !.yaw = PI],
    [initialCamera(l) EXCEPT !.y = 20000, !.pitch = PITCH_MIN],
    [initialCamera(l) EXCEPT !.y = 3000, !.yaw = 0, !.pitch = PITCH_MIN] }
RenderCalls ==
  { [fn |-> "renderScene", tiles |-> l, camera |-> c, selectedIndex |-> i,
     done |-> FALSE, ret |-> Drawn(<< >>)] :
      l \in RenderTiles, c \in UNION { RenderCameras(t) : t \in RenderTiles }, i \in {0, 1} }
ProjectCalls ==
  { [fn |-> "projectPoint", point |-> p, camera |-> c, done |-> FALSE, ret |-> NullPoint] :
      p \in CallPoints, c \in CallCameras }

CallsInit ==
  /\ Mounted([cells |-> << >>, terrain |-> << >>])
  /\ budget = [events |-> 0, clock |-> 0]
  /\ \/ call \in NearestCalls
     \/ call \in GroundCalls
     \/ call \in CameraCalls
     \/ call \in ProjectCalls
     \/ call \in CameraInitCalls
     \/ call \in BuildCalls
     \/ call \in BoundsCalls
     \/ call \in ColorCalls
     \/ call \in WrapCalls
     \/ call \in SafeIndexCalls
     \/ call \in ReducerCalls
     \/ call \in RenderCalls

Returns(value) ==
  /\ ~call.done
  /\ call' = [call EXCEPT !.done = TRUE, !.ret = value]
  /\ UNCHANGED << tiles, mode, selectedIndex, cameraHud, camera, keys, drag, loop,
                  pendingFrames, listeners, clock, rafTime, frameOut, nEvents,
                  event, unmounted, hudPushes, budget >>

CallFindNearestTileIndex ==
  /\ call.fn = "findNearestTileIndex"
  /\ Returns(findNearestTileIndex(call.tiles, call.x, call.z))
CallSampleGroundHeight ==
  /\ call.fn = "sampleGroundHeight"
  /\ Returns(sampleGroundHeight(call.tiles, call.x, call.z))
CallInitialCamera ==
  /\ call.fn = "initialCamera"
  /\ Returns(initialCamera(call.tiles))
CallProjectPoint ==
  /\ call.fn = "projectPoint"
  /\ Returns(projectPoint(call.point, call.camera, VIEW_WIDTH, VIEW_HEIGHT, FOCAL_LENGTH))

CallCameraInitEffect ==
  /\ call.fn = "cameraInitEffect"
  /\ Returns(CameraInitEffect(call.tiles))
CallBuildHexMapTiles ==
  /\ call.fn = "buildHexMapTiles"
  /\ Returns(buildHexMapTiles(call.cells, call.terrain, HEX_SIZE))
CallComputeMapBounds ==
  /\ call.fn = "computeMapBounds"
  /\ Returns(computeMapBounds(call.tiles, call.size))
CallResolveTileColor ==
  /\ call.fn = "resolveTileColor"
  /\ Returns(resolveTileColor(call.terrain))
CallWrapAngle ==
  /\ call.fn = "wrapAngle"
  /\ Returns(wrapAngle(call.value))
CallSafeSelectedIndex ==
  /\ call.fn = "safeSelectedIndex"
  /\ Returns(safeSelectedIndex(call.stored, call.tiles))
\* dispatch(action) on the store.
CallGameReducer ==
  /\ call.fn = "gameReducer"
  /\ call.dispatched < 2
  /\ call' = [call EXCEPT !.state = call.ret,
                          !.ret = gameReducer(call.ret, call.action),
                          !.dispatched = call.dispatched + 1,
                          !.done = TRUE]
  /\ UNCHANGED << tiles, mode, selectedIndex, cameraHud, camera, keys, drag, loop,
                  pendingFrames, listeners, clock, rafTime, frameOut, nEvents,
                  event, unmounted, hudPushes, budget >>
CallRenderScene ==
  /\ call.fn = "renderScene"
  /\ Returns(renderScene(call.tiles, call.camera, call.selectedIndex))

CallsNext ==
  \/ CallFindNearestTileIndex
  \/ CallSampleGroundHeight
  \/ CallInitialCamera
  \/ CallProjectPoint
  \/ CallCameraInitEffect
  \/ CallBuildHexMapTiles
  \/ CallComputeMapBounds
  \/ CallResolveTileColor
  \/ CallWrapAngle
  \/ CallSafeSelectedIndex
  \/ CallGameReducer
  \/ CallRenderScene

SpecCalls == CallsInit /\ [][CallsNext]_vars

----------------------------------------------------------------------------
(* Properties.                                                             *)

\* A step is a frame update exactly when the clock advances: Tick is the only
\* action that changes the clock, and every frame gap is positive.
TickStep == clock' # clock

GroundAt(cam) == sampleGroundHeight(tiles, cam.x, cam.z)

\* C1: after every frame update in walk mode the camera height is the ground
\* height at the camera's new x/z plus the eye height, whatever it was before
\* and whatever keys are held.
C1_WalkHeightPinned ==
  [][(TickStep /\ mode = "walk")
       => camera'.y = sampleGroundHeight(tiles, camera'.x, camera'.z)
                      + HUMAN_EYE_HEIGHT]_vars

\* A walk-mode frame has carried the camera from the lower tile onto the
\* higher one, and the height followed the ground.
C1_Witness ==
  /\ mode = "walk" /\ frameOut.mode = "walk" /\ frameOut.ops # << >>
  /\ nEvents = 1 /\ "KeyW" \in frameOut.keys
  /\ Len(tiles) = 2
  /\ GroundAt(camera) = 80 * HEIGHT_SCALE
  /\ camera.y = 80 * HEIGHT_SCALE + HUMAN_EYE_HEIGHT

\* C2: after every frame update in fly mode the camera height is at least the
\* ground height at the camera's new x/z plus the clearance, for any held keys
\* and any prior height.
C2_FlyFloor ==
  [][(TickStep /\ mode = "fly")
       => camera'.y >= sampleGroundHeight(tiles, camera'.x, camera'.z)
                       + FLY_CLEARANCE]_vars

\* A fly-mode frame has carried the camera over higher ground than its height
\* allowed, and the camera was lifted to the floor.
C2_Witness ==
  /\ mode = "fly" /\ frameOut.mode = "fly" /\ frameOut.ops # << >>
  /\ camera.y = GroundAt(camera) + FLY_CLEARANCE

\* C3: the camera pitch is in [-1.2, 0.75] in every reachable state.
C3_PitchInRange == PITCH_MIN <= camera.pitch /\ camera.pitch <= PITCH_MAX

\* A drag larger than the range allows has been clamped at the lower limit,
\* and a frame has run since.
C3_Witness ==
  /\ drag.active /\ drag.lastY = 500
  /\ camera.pitch = PITCH_MIN
  /\ frameOut.ops # << >>


InHalfOpenTurn(a) == -PI < a /\ a <= PI

\* C4: the camera yaw is in (-pi, pi] in every reachable state, and wrapAngle
\* returns a value in (-pi, pi] for negative, zero and many-turn inputs.
C4_YawInRange ==
  /\ InHalfOpenTurn(camera.yaw)
  /\ \A v \in WrapInputs : InHalfOpenTurn(wrapAngle(v))

\* A drag to the left has taken the yaw below -pi and it was wrapped to the
\* positive side.
C4_Witness ==
  /\ drag.active /\ drag.lastX = 0
  /\ camera.yaw = SCOUT_YAW - 1000 * LOOK_SENSITIVITY + 2 * PI

VerticalKeys == {"Space", "KeyE", "KeyQ", "KeyC"}

\* C5: in walk mode a frame update gives the same camera pose whether or not
\* a vertical key is held.
C5_WalkIgnoresVerticalKeys ==
  [][(TickStep /\ mode = "walk")
       => camera' = UpdateCamera(camera, tiles, mode, keys \ VerticalKeys,
                                 frameOut'.deltaMs)]_vars

\* A walk-mode frame has run over a positive time with a descend key held.
C5_Witness ==
  /\ mode = "walk" /\ frameOut.mode = "walk" /\ frameOut.ops # << >>
  /\ "KeyQ" \in frameOut.keys /\ frameOut.deltaMs > 0

SqDist(tile, x, z) == (tile.x - x) * (tile.x - x) + (tile.y - z) * (tile.y - z)

\* C6: for a non-empty tile list findNearestTileIndex returns the index of a
\* tile at the minimum squared distance to (x, z), and the lowest such index
\* when several tiles are at that distance.
C6_NearestIsFirstMinimum ==
  (call.fn = "findNearestTileIndex" /\ call.done /\ Len(call.tiles) > 0)
    => /\ call.ret \in 0..(Len(call.tiles) - 1)
       /\ \A j \in 0..(Len(call.tiles) - 1) :
            /\ SqDist(At0(call.tiles, call.ret), call.x, call.z)
                 <= SqDist(At0(call.tiles, j), call.x, call.z)
            /\ j < call.ret
                 => SqDist(At0(call.tiles, j), call.x, call.z)
                      > SqDist(At0(call.tiles, call.ret), call.x, call.z)

\* A call has returned on a list where two tiles tie for the minimum, a
\* farther tile comes first, and the first of the two was returned.
C6_Witness ==
  /\ call.fn = "findNearestTileIndex" /\ call.done /\ Len(call.tiles) = 3
  /\ call.ret = 1
  /\ SqDist(call.tiles[2], call.x, call.z) = SqDist(call.tiles[3], call.x, call.z)
  /\ call.tiles[2] # call.tiles[3]
  /\ SqDist(call.tiles[1], call.x, call.z) > SqDist(call.tiles[2], call.x, call.z)

\* C7: on the empty tile list findNearestTileIndex returns 0,
\* sampleGroundHeight returns 0 and initialCamera returns the default pose
\* (x 0, z 0, y 1.72, yaw 0, pitch -0.35), for every x and z.
C7_EmptyListDefaults ==
  (call.fn \in {"findNearestTileIndex", "sampleGroundHeight", "initialCamera"}
   /\ call.done /\ call.tiles = << >>)
    => /\ call.fn = "findNearestTileIndex" => call.ret = 0
       /\ call.fn = "sampleGroundHeight" => call.ret = 0
       /\ call.fn = "initialCamera"
            => call.ret = [x |-> 0, y |-> 172, z |-> 0, yaw |-> 0, pitch |-> -350000]

\* sampleGroundHeight has returned on the empty list, at a query away from
\* the origin.
C7_Witness ==
  /\ call.fn = "sampleGroundHeight" /\ call.done /\ call.tiles = << >>
  /\ call.x = 150 /\ call.z = 100

ForwardDepth(point, cam) ==
  LET dx   == point.x - cam.x
      dy   == point.y - cam.y
      dz   == point.z - cam.z
      zYaw == RDiv(Sin(cam.yaw) * dx, TRIG) + RDiv(Cos(cam.yaw) * dz, TRIG)
  IN  RDiv(Sin(cam.pitch) * dy, TRIG) + RDiv(Cos(cam.pitch) * zYaw, TRIG)

\* C9: projectPoint rejects a point exactly when its forward-axis depth is
\* <= 0.5 or >= 1100, and returns every accepted point with that depth.
C9_RejectsOutsideDepthRange ==
  (call.fn = "projectPoint" /\ call.done)
    => LET depth == ForwardDepth(call.point, call.camera)
       IN  /\ call.ret.null <=> (depth <= NEAR_PLANE \/ depth >= FAR_PLANE)
           /\ ~call.ret.null => call.ret.depth = depth

\* A point exactly on the near plane has been rejected.
C9_Witness ==
  /\ call.fn = "projectPoint" /\ call.done /\ call.ret.null
  /\ ForwardDepth(call.point, call.camera) = NEAR_PLANE

\* C10: the sorted draw queue is in non-increasing depth order, and the
\* frame draws the sky, then fills and strokes the polygons in exactly that
\* order, then the crosshair.
C10_DrawnFarthestFirst ==
  frameOut.ops # << >>
    => LET queue == frameOut.drawQueue
           ops   == frameOut.ops
       IN  /\ \A i \in 1..Len(queue), j \in 1..Len(queue) :
                i < j => queue[i].depth >= queue[j].depth
           /\ Len(ops) = 2 * Len(queue) + 2
           /\ ops[1].op = "sky"
           /\ ops[Len(ops)].op = "crosshair"
           /\ \A k \in 1..Len(queue) :
                /\ ops[2 * k].op = "fill" /\ ops[2 * k].index = queue[k].index
                /\ ops[2 * k + 1].op = "stroke" /\ ops[2 * k + 1].index = queue[k].index

\* A frame drew two tiles, and the sort put the farther one, which comes
\* later in the tile list, first.
C10_Witness ==
  /\ Len(frameOut.drawQueue) >= 2
  /\ frameOut.drawQueue[1].depth > frameOut.drawQueue[2].depth
  /\ frameOut.drawQueue[1].index > frameOut.drawQueue[2].index

\* C11: two consecutive HUD pushes of the frame loop are at least 100 ms of
\* frame time apart, while every frame updates the camera pose.
C11_HudThrottled ==
  [][clock' # clock
       => /\ camera' = UpdateCamera(camera, tiles, mode, keys, frameOut'.deltaMs)
          /\ \A i \in 1..(Len(hudPushes') - 1) :
               hudPushes'[i + 1] - hudPushes'[i] >= CAMERA_UPDATE_MS]_vars

\* The loop has pushed twice while the camera walked, and a later frame has
\* moved the camera on without pushing.
C11_Witness ==
  /\ Len(hudPushes) = 2
  /\ "KeyW" \in frameOut.keys
  /\ cameraHud.z # camera.z

\* A step that delivers an input event of the given type.
EventStep(type) == nEvents' = nEvents + 1 /\ event'.type = type

\* C12: a teardown of the loop (mode change, regeneration, unmount) cancels
\* its pending frame and removes its three listeners; while no loop runs, no
\* frame callback runs and no key or blur handler fires.
C12_TeardownCancels ==
  [][/\ (mode' # mode \/ EventStep("regenerate") \/ EventStep("unmount"))
          => /\ pendingFrames' = (IF loop'.active THEN {loop'.frame} ELSE {})
             /\ listeners' = (IF loop'.active THEN LoopListeners ELSE {})
             /\ unmounted' => ~loop'.active
     /\ ~loop.active
          => /\ clock' = clock
             /\ ~EventStep("keydown") /\ ~EventStep("keydown-repeat")
             /\ ~EventStep("keyup") /\ ~EventStep("blur")
             /\ keys' = keys
             /\ frameOut' = frameOut]_vars

\* The component was unmounted after its loop had drawn a frame, with a key
\* held: the frame is cancelled and the listeners are gone.
C12_Witness ==
  /\ event.type = "unmount" /\ unmounted
  /\ frameOut.ops # << >> /\ keys # {}
  /\ pendingFrames = {} /\ listeners = {}

\* C13: a blur empties the held-key set and ends the drag; the key set stays
\* empty until a keydown and the drag inactive until a pointerdown; with no
\* key held a frame moves the camera neither in the plane nor by a vertical
\* key, and with no drag a pointer move leaves the camera as it is.
C13_BlurResetsInput ==
  [][/\ EventStep("blur") => keys' = {} /\ ~drag'.active
     /\ (keys = {} /\ ~EventStep("keydown")) => keys' = {}
     /\ (~drag.active /\ ~EventStep("pointerdown")) => ~drag'.active
     /\ (clock' # clock /\ keys = {})
          => /\ camera'.x = camera.x /\ camera'.z = camera.z
             /\ camera'.y = IF mode = "walk"
                            THEN GroundAt(camera) + HUMAN_EYE_HEIGHT
                            ELSE Max(camera.y, GroundAt(camera) + FLY_CLEARANCE)
     /\ (EventStep("pointermove") /\ ~drag.active) => camera' = camera]_vars

\* The window lost focus while a key was held (a frame had moved with it)
\* and a drag was in progress.
C13_Witness ==
  /\ event.type = "blur"
  /\ frameOut.keys # {} /\ keys = {}
  /\ drag.pointerId # -1 /\ ~drag.active

\* C14: a non-repeat keydown of F toggles the mode once, an auto-repeat
\* keydown never changes the mode or the held keys, and F is never in the
\* held-key set.
C14_ModeTogglesOnPressEdge ==
  [][/\ (EventStep("keydown") /\ event'.code = "KeyF")
          => mode' = Toggle(mode) /\ keys' = keys
     /\ EventStep("keydown-repeat") => mode' = mode /\ keys' = keys
     /\ "KeyF" \notin keys']_vars

\* An auto-repeat keydown of F was the third event, delivered in fly mode
\* with the camera at the height the one mode switch gave it.
C14_Witness ==
  /\ nEvents = 3 /\ mode = "fly"
  /\ event = [type |-> "keydown-repeat", code |-> "KeyF"]
  /\ loop.lastTime = clock /\ frameOut.ops = << >> /\ keys = {}
  /\ drag = InitialDrag /\ Len(tiles) = 2
  /\ camera.y = GroundAt(camera) + HUMAN_EYE_HEIGHT + FLY_ENTRY_LIFT

RECURSIVE Total(_, _)
Total(list, f) == IF Len(list) = 0 THEN 0 ELSE Head(list)[f] + Total(Tail(list), f)

\* v is the mean of the field f over the list, to the nearest unit.
IsMean(v, list, f) == 2 * Abs(Len(list) * v - Total(list, f)) <= Len(list)

\* index is the lowest index of a tile nearest to (x, z).
IsFirstNearest(index, list, x, z) ==
  /\ index \in 0..(Len(list) - 1)
  /\ \A j \in 0..(Len(list) - 1) :
       /\ SqDist(At0(list, index), x, z) <= SqDist(At0(list, j), x, z)
       /\ j < index => SqDist(At0(list, j), x, z) > SqDist(At0(list, index), x, z)

\* C15: on a non-empty tile list the camera-init effect puts the camera at
\* the centroid of the tile positions, at the ground height under the
\* centroid plus 1.72, with the fixed scouting yaw and pitch, and selects the
\* tile findNearestTileIndex gives for that position.
C15_InitialCameraAtCentroid ==
  (call.fn = "cameraInitEffect" /\ call.done /\ Len(call.tiles) > 0)
    => /\ IsMean(call.ret.camera.x, call.tiles, "x")
       /\ IsMean(call.ret.camera.z, call.tiles, "y")
       /\ IsFirstNearest(call.ret.selectedIndex, call.tiles,
                         call.ret.camera.x, call.ret.camera.z)
       /\ call.ret.camera.y
            = At0(call.tiles, call.ret.selectedIndex).terrain.height * HEIGHT_SCALE
              + 172
       /\ call.ret.camera.yaw = SCOUT_YAW /\ call.ret.camera.pitch = SCOUT_PITCH

\* The effect has run on three tiles whose centroid lies on none of them and
\* nearest to the second.
C15_Witness ==
  /\ call.fn = "cameraInitEffect" /\ call.done /\ Len(call.tiles) = 3
  /\ call.ret.selectedIndex = 1
  /\ \A i \in 1..3 : call.tiles[i].x # call.ret.camera.x
  /\ call.ret.camera.y > HUMAN_EYE_HEIGHT

\* The pose the camera-init effect and the mode effect leave on new tiles:
\* over their centroid, at eye height in walk mode, lifted by 5 in fly mode.
IsFreshPose(cam, newTiles, theMode) ==
  IF Len(newTiles) = 0
  THEN cam = ModeEffect(DefaultCamera, newTiles, theMode)
  ELSE /\ IsMean(cam.x, newTiles, "x") /\ IsMean(cam.z, newTiles, "y")
       /\ cam.yaw = SCOUT_YAW /\ cam.pitch = SCOUT_PITCH
       /\ cam.y = sampleGroundHeight(newTiles, cam.x, cam.z)
                    + (IF theMode = "walk" THEN 172 ELSE 672)

\* C16 as stated: after a regeneration the camera pose, the held keys and
\* the drag state are what the new tiles alone give, as with no earlier
\* input: the fresh pose, no key held, no drag.
C16_NothingSurvivesRegeneration ==
  [][EventStep("regenerate")
       => /\ IsFreshPose(camera', tiles', mode)
          /\ keys' = {}
          /\ drag' = InitialDrag]_vars

\* C16, amended: a regeneration rebuilds the tile list and sets the camera
\* pose from the new tiles and the current mode alone, whatever the pose
\* was; the held-key set and the drag state are carried over unchanged.
C16_RegenerationResetsPoseOnly ==
  [][EventStep("regenerate")
       => /\ IsFreshPose(camera', tiles', mode)
          /\ keys' = keys
          /\ drag' = drag]_vars

\* The world was regenerated while a key was held, after a frame had moved
\* the camera with it, and during a drag.
C16_Witness ==
  /\ event.type = "regenerate"
  /\ "KeyW" \in frameOut.keys /\ frameOut.ops # << >>
  /\ keys # {} /\ drag.active

\* C20 as stated: a step changes the camera pose only if it is a frame or a
\* pointer move.
C20_OnlyFrameAndPointerMoveWrite ==
  [][camera' # camera => (clock' # clock \/ EventStep("pointermove"))]_vars

\* C20, amended: a step changes the camera pose only if it is a frame, a
\* pointer move of the active drag, a mode switch (mode effect) or a
\* regeneration (camera-init and mode effects); key handlers that switch no
\* mode, the blur handler, pointer down and up and the HUD push leave it.
C20_CameraWriters ==
  [][camera' # camera
       => \/ clock' # clock
          \/ EventStep("pointermove") /\ drag.active
          \/ mode' # mode
          \/ EventStep("regenerate")]_vars

\* A press of F switched to fly mode and the mode effect lifted the camera.
C20_Witness ==
  /\ event = [type |-> "keydown", code |-> "KeyF"]
  /\ mode = "fly" /\ nEvents = 1 /\ clock = 0
  /\ camera.y = GroundAt(camera) + HUMAN_EYE_HEIGHT + FLY_ENTRY_LIFT

DefaultPlains == [height |-> 0, heat |-> 0, moisture |-> 0, biome |-> "Plains"]

\* C17: buildHexMapTiles returns one tile per cell, in cell order, with the
\* cell's q and r and the terrain at the same index, or the flat-plains
\* default where the terrain list has no entry; terrain entries beyond the
\* cells are ignored.
C17_OneTilePerCell ==
  (call.fn = "buildHexMapTiles" /\ call.done)
    => /\ Len(call.ret) = Len(call.cells)
       /\ \A i \in 1..Len(call.cells) :
            /\ call.ret[i].q = call.cells[i].q
            /\ call.ret[i].r = call.cells[i].r
            /\ call.ret[i].terrain = IF i <= Len(call.terrain) THEN call.terrain[i]
                                     ELSE DefaultPlains

\* Two cells were given one terrain entry: the second tile took the default.
C17_Witness ==
  /\ call.fn = "buildHexMapTiles" /\ call.done
  /\ Len(call.cells) = 2 /\ Len(call.terrain) = 1
  /\ call.ret[1].terrain = call.terrain[1] /\ call.ret[1].terrain # DefaultPlains
  /\ call.ret[2].terrain = DefaultPlains
  /\ call.ret[2].q = -1 /\ call.ret[2].r = 2

Lowest(list, f)  == CHOOSE v \in { list[i][f] : i \in 1..Len(list) } :
                      \A i \in 1..Len(list) : v <= list[i][f]
Highest(list, f) == CHOOSE v \in { list[i][f] : i \in 1..Len(list) } :
                      \A i \in 1..Len(list) : v >= list[i][f]

\* C18: computeMapBounds returns the bounding box of the tile positions
\* padded by size on each side, wider and higher than nothing when size > 0,
\* and the box (-size, size, -size, size) for an empty list.
C18_PaddedBounds ==
  (call.fn = "computeMapBounds" /\ call.done)
    => IF Len(call.tiles) = 0
       THEN call.ret = [minX |-> -call.size, maxX |-> call.size,
                        minY |-> -call.size, maxY |-> call.size]
       ELSE /\ call.ret.minX = Lowest(call.tiles, "x") - call.size
            /\ call.ret.maxX = Highest(call.tiles, "x") + call.size
            /\ call.ret.minY = Lowest(call.tiles, "y") - call.size
            /\ call.ret.maxY = Highest(call.tiles, "y") + call.size
            /\ call.size > 0 => /\ call.ret.maxX > call.ret.minX
                                /\ call.ret.maxY > call.ret.minY

\* The bounds of three tiles not in a line were computed with a padding.
C18_Witness ==
  /\ call.fn = "computeMapBounds" /\ call.done /\ Len(call.tiles) = 3
  /\ call.size = HEX_SIZE
  /\ call.ret.maxX - call.ret.minX = 200 + 2 * HEX_SIZE
  /\ call.ret.maxY - call.ret.minY = 200 + 2 * HEX_SIZE

\* C19: the colour of a terrain is its base colour under the elevation
\* lightness: the base is the surface palette's for a known surface,
\* otherwise the biome palette's for a known biome, otherwise #8b9eb6; at
\* height 0 the colour is the base colour itself.
C19_ColorFromSurfaceThenBiome ==
  (call.fn = "resolveTileColor" /\ call.done)
    => LET t    == call.terrain
           base == IF "surface" \in DOMAIN t /\ t.surface \in {"Grass", "Water"}
                   THEN (IF t.surface = "Grass" THEN << 91, 183, 104 >>
                                                ELSE << 63, 131, 210 >>)
                   ELSE IF t.biome = "Plains" THEN << 137, 191, 103 >>
                   ELSE IF t.biome = "MixedForest" THEN << 79, 148, 100 >>
                   ELSE << 139, 158, 182 >>
       IN  /\ call.ret = withLightness(base, ElevationBoost(t))
           /\ t.height = 0 => call.ret = base

\* A terrain with a known surface and a known biome took the surface colour.
C19_Witness ==
  /\ call.fn = "resolveTileColor" /\ call.done
  /\ "surface" \in DOMAIN call.terrain
  /\ call.terrain.surface = "Water" /\ call.terrain.biome = "Plains"
  /\ call.terrain.height = 0
  /\ call.ret = << 63, 131, 210 >>

\* C26: wrapAngle returns its argument moved by a whole number of turns,
\* for negative angles and for odd multiples of pi as well.
C26_WrapKeepsDirection ==
  (call.fn = "wrapAngle" /\ call.done)
    => (call.ret - call.value) % (2 * PI) = 0

\* An odd multiple of pi below zero was wrapped, to pi.
C26_Witness ==
  /\ call.fn = "wrapAngle" /\ call.done
  /\ call.value = -3 * PI /\ call.ret = PI

\* C29: on a non-empty tile list the index used for the panel is an index
\* of the list: the stored index when that is one, 0 when the stored index
\* is negative or not less than the length of the list.
C29_SafeIndexInRange ==
  (call.fn = "safeSelectedIndex" /\ call.done)
    => /\ Len(call.tiles) > 0 => call.ret \in 0..(Len(call.tiles) - 1)
       /\ call.ret = IF call.stored \in 0..(Len(call.tiles) - 1)
                     THEN call.stored ELSE 0

\* The stored index was the length of a list of two tiles: the panel fell
\* back to the first tile.
C29_Witness ==
  /\ call.fn = "safeSelectedIndex" /\ call.done
  /\ Len(call.tiles) = 2 /\ call.stored = 2 /\ call.ret = 0

\* C30: INCREMENT_SCORE adds its payload to the score, SET_LEVEL sets the
\* level, TOGGLE_PAUSE flips isPaused, each leaving the other fields;
\* RESET_GAME gives score 0, level 1, not paused; an unknown action gives
\* the state back; two TOGGLE_PAUSE in a row restore the state.
C30_ActionsChangeOwnField ==
  (call.fn = "gameReducer" /\ call.done)
    => /\ call.action.type = "INCREMENT_SCORE"
            => call.ret = [score    |-> call.state.score + call.action.payload,
                           level    |-> call.state.level,
                           isPaused |-> call.state.isPaused]
       /\ call.action.type = "SET_LEVEL"
            => call.ret = [score    |-> call.state.score,
                           level    |-> call.action.payload,
                           isPaused |-> call.state.isPaused]
       /\ call.action.type = "TOGGLE_PAUSE"
            => /\ call.ret = [score    |-> call.state.score,
                              level    |-> call.state.level,
                              isPaused |-> ~call.state.isPaused]
               /\ call.dispatched = 2 => call.ret = call.first
       /\ call.action.type = "RESET_GAME"
            => call.ret = [score |-> 0, level |-> 1, isPaused |-> FALSE]
       /\ call.action.type = "UNKNOWN" => call.ret = call.state

\* A level was set on a paused game with a score: only the level changed.
C30_Witness ==
  /\ call.fn = "gameReducer" /\ call.done /\ call.dispatched = 1
  /\ call.action = [type |-> "SET_LEVEL", payload |-> 2]
  /\ call.state = [score |-> 10, level |-> 3, isPaused |-> TRUE]
  /\ call.ret = [score |-> 10, level |-> 2, isPaused |-> TRUE]

\* The projection of corner i of a tile, and the tile's corners all accepted.
CornerProjection(tile, cam, i) ==
  projectPoint([x |-> hexCorners(tile.x, tile.y, HEX_SIZE)[i].x,
                y |-> Elevation(tile),
                z |-> hexCorners(tile.x, tile.y, HEX_SIZE)[i].z],
               cam, VIEW_WIDTH, VIEW_HEIGHT, FOCAL_LENGTH)
AcceptedCorners(tile, cam) == { i \in 1..6 : ~CornerProjection(tile, cam, i).null }
ItemsOf(queue, index) == { k \in 1..Len(queue) : queue[k].index = index }

\* C23: the draw queue of a frame holds one item for each tile whose six
\* corners projectPoint all accepts and none for any other tile; every item
\* is the polygon of the six projected corners and its depth is the mean of
\* the six corner depths.
C23_TileDrawnIffAllCornersProject ==
  (call.fn = "renderScene" /\ call.done)
    => /\ \A index \in 0..(Len(call.tiles) - 1) :
            Cardinality(ItemsOf(call.ret.drawQueue, index))
              = IF AcceptedCorners(At0(call.tiles, index), call.camera) = 1..6
                THEN 1 ELSE 0
       /\ \A k \in 1..Len(call.ret.drawQueue) :
            LET item == call.ret.drawQueue[k]
                tile == At0(call.tiles, item.index)
                p(i) == CornerProjection(tile, call.camera, i)
            IN  /\ Len(item.path) = 6
                /\ \A i \in 1..6 : item.path[i] = [x |-> p(i).x, y |-> p(i).y]
                /\ item.depth
                     = RDiv(p(1).depth + p(2).depth + p(3).depth
                            + p(4).depth + p(5).depth + p(6).depth, 6)

\* A scene was rendered in which one tile was drawn and another, with some
\* corners accepted and some rejected, was left out.
C23_Witness ==
  /\ call.fn = "renderScene" /\ call.done
  /\ Len(call.ret.drawQueue) >= 1
  /\ \E index \in 0..(Len(call.tiles) - 1) :
       /\ ItemsOf(call.ret.drawQueue, index) = {}
       /\ AcceptedCorners(At0(call.tiles, index), call.camera) \notin {{}, 1..6}

\* C21: at most one frame request is pending at any time: the request of
\* the running loop, and none when no loop runs.
C21_OneFramePending ==
  /\ Cardinality(pendingFrames) <= 1
  /\ pendingFrames = IF loop.active THEN {loop.frame} ELSE {}

\* After a mode switch and then a regeneration, each of which tore a loop
\* down and started one, a frame of the last loop has run and requested its
\* successor.
C21_Witness ==
  /\ event.type = "regenerate" /\ mode = "fly"
  /\ loop.active /\ loop.lastTime = clock - 50
  /\ frameOut.mode = "fly"
  /\ Cardinality(pendingFrames) = 1

\* C22: a pointer move leaves x, y and z of the camera, and changes the
\* camera only during a drag and for the dragging pointer; a pointer up or
\* cancel of the dragging pointer ends the drag, and the drag stays ended,
\* with pointer moves changing nothing, until a pointer down.
C22_LookOnlyWhileDragging ==
  [][/\ EventStep("pointermove")
          => /\ camera'.x = camera.x /\ camera'.y = camera.y /\ camera'.z = camera.z
             /\ camera' # camera
                  => drag.active /\ event'.pointerId = drag.pointerId
     /\ (EventStep("pointerup") /\ event'.pointerId = drag.pointerId)
          => ~drag'.active
     /\ (~drag.active /\ ~EventStep("pointerdown")) => ~drag'.active]_vars

\* A drag of pointer 1 was started and a move of pointer 1 has then turned
\* the camera.
C22_Witness ==
  /\ nEvents = 2 /\ event = [type |-> "pointermove", code |-> "", pointerId |-> 1]
  /\ drag.active /\ drag.pointerId = 1 /\ drag.lastX = 1000
  /\ camera.yaw \notin {0, SCOUT_YAW}
  /\ camera.pitch \notin {DEFAULT_PITCH, SCOUT_PITCH}

Highlighted(queue) == { k \in 1..Len(queue) : queue[k].highlighted }

\* C24: in the draw queue of every frame an item is highlighted exactly
\* when its tile is the one findNearestTileIndex gives for the camera
\* position after the frame's movement; so at most one item is highlighted.
C24_NearestTileHighlighted ==
  [][clock' # clock
       => /\ \A k \in 1..Len(frameOut'.drawQueue) :
               frameOut'.drawQueue[k].highlighted
                 <=> (frameOut'.drawQueue[k].index
                        = findNearestTileIndex(tiles, camera'.x, camera'.z))
          /\ Cardinality(Highlighted(frameOut'.drawQueue)) <= 1]_vars

\* With no input yet, a frame has drawn several tiles and highlighted the
\* one nearest to the camera, and no other.
C24_Witness ==
  /\ nEvents = 0 /\ rafTime = loop.lastTime /\ frameOut.ops # << >>
  /\ Len(frameOut.drawQueue) >= 2
  /\ Cardinality(Highlighted(frameOut.drawQueue)) = 1
  /\ \E k \in 1..Len(frameOut.drawQueue) :
       /\ frameOut.drawQueue[k].highlighted
       /\ frameOut.drawQueue[k].index = findNearestTileIndex(tiles, camera.x, camera.z)

\* The square of the planar distance between two poses.
PlanarSq(a, b) == (a.x - b.x) * (a.x - b.x) + (a.z - b.z) * (a.z - b.z)

\* The most a frame moves in the plane: speed x 1.85 x 0.05 (1.85 walking,
\* 2.96 flying), with one length unit of rounding.
PlanarReach(theMode) == IF theMode = "fly" THEN 296 + 1 ELSE 185 + 1

\* C25 as stated: a frame integrates at most 50 ms, moves at most
\* speed x 1.85 x 0.05 in the plane and, in fly mode, changes the height by
\* at most 22 x 0.05 = 1.1.
C25_FrameDisplacementBounded ==
  [][clock' # clock
       => /\ frameOut'.deltaMs <= 50
          /\ PlanarSq(camera', camera) <= PlanarReach(mode) * PlanarReach(mode)
          /\ mode = "fly" => Abs(camera'.y - camera.y) <= 110]_vars

\* C25, amended: a frame integrates at most 50 ms and moves at most
\* speed x 1.85 x 0.05 in the plane; in fly mode the vertical keys change
\* the height by at most 1.1: the camera sinks by no more than that, and
\* rises by more only onto the floor of ground + 0.6.
C25_FrameStepBounded ==
  [][clock' # clock
       => /\ frameOut'.deltaMs <= 50
          /\ PlanarSq(camera', camera) <= PlanarReach(mode) * PlanarReach(mode)
          /\ mode = "fly"
               => /\ camera'.y >= camera.y - 110
                  /\ camera'.y <= Max(camera.y + 110,
                                      sampleGroundHeight(tiles, camera'.x, camera'.z) + 60)]_vars

\* A frame delivered more than 50 ms after the last one has integrated 50 ms
\* of flying forward, onto ground so much higher that the floor lifted the
\* camera.
C25_Witness ==
  /\ rafTime = loop.lastTime /\ frameOut.deltaMs = 50
  /\ mode = "fly" /\ frameOut.mode = "fly" /\ "KeyW" \in frameOut.keys
  /\ camera.y = GroundAt(camera) + FLY_CLEARANCE

\* C27: the time a frame integrates is never negative, also when the first
\* frame's timestamp lies before the clock value the loop started with: the
\* HUD accumulator does not decrease (but for its reset on a push) and, with
\* only the forward key held, the camera does not move backwards.
C27_ElapsedTimeNeverNegative ==
  [][clock' # clock
       => /\ frameOut'.deltaMs >= 0
          /\ loop'.hudAccumulator >= loop.hudAccumulator \/ loop'.hudAccumulator = 0
          /\ (InputZ(keys) = 1 /\ InputX(keys) = 0)
               => (camera'.x - camera.x) * Sin(camera.yaw)
                  + (camera'.z - camera.z) * Cos(camera.yaw) >= 0]_vars

\* The height the mode effect gives on the ground under the new pose.
FlyEntryHeight(cam, theTiles) == sampleGroundHeight(theTiles, cam.x, cam.z) + 172 + 500
WalkEntryHeight(cam, theTiles) == sampleGroundHeight(theTiles, cam.x, cam.z) + 172

\* C28 as stated: a switch to fly mode, and a regeneration in fly mode
\* (taken here to a world that has tiles), leave the height at
\* max(previous height, ground + 1.72 + 5), never lower than before; a
\* switch to walk mode leaves it at ground + 1.72; a switch of mode leaves
\* x, z, yaw and pitch.
C28_ModeHeightFromPrevious ==
  [][/\ (mode' # mode \/ (EventStep("regenerate") /\ mode = "fly" /\ Len(tiles') > 0))
          => camera'.y = IF mode' = "fly"
                         THEN Max(camera.y, FlyEntryHeight(camera', tiles'))
                         ELSE WalkEntryHeight(camera', tiles')
     /\ mode' # mode
          => camera' = [camera EXCEPT !.y = camera'.y] /\ clock' = clock]_vars

\* C28, amended: a switch to fly mode leaves the height at max(previous
\* height, ground + 1.72 + 5), never lower than before, and a switch to walk
\* mode at ground + 1.72, with x, z, yaw and pitch unchanged and before any
\* frame; a regeneration in fly mode leaves it at ground + 1.72 + 5 under
\* the new initial position, whatever the height was before.
C28_ModeHeightAdjusted ==
  [][/\ mode' # mode
          => /\ camera'.y = IF mode' = "fly"
                            THEN Max(camera.y, FlyEntryHeight(camera', tiles'))
                            ELSE WalkEntryHeight(camera', tiles')
             /\ camera' = [camera EXCEPT !.y = camera'.y] /\ clock' = clock
     /\ (EventStep("regenerate") /\ mode = "fly")
          => camera'.y = FlyEntryHeight(camera', tiles')]_vars

\* The world was regenerated in fly mode after a frame of flying, and the
\* camera is 6.72 above the ground of the new world.
C28_Witness ==
  /\ event.type = "regenerate" /\ mode = "fly" /\ frameOut.mode = "fly"
  /\ frameOut.ops # << >>
  /\ camera.y = GroundAt(camera) + HUMAN_EYE_HEIGHT + FLY_ENTRY_LIFT

====
